---- MODULE Spec2Model ----
(***************************************************************************)
(* Model of the candidate analysis pipeline of ai-ats-tracker:             *)
(*   backend/app/api/candidates.py      the two run paths and the triggers *)
(*   backend/app/services/ai_service.py the structural analyzer            *)
(*                                                                         *)
(* One candidate record is modelled.  Every score is held as a fixed-point *)
(* number of hundredths (7200 stands for 72.00), so that round(x, 2) is an *)
(* integer rounding.  A SQLAlchemy session is modelled by the run's set of *)
(* dirty attributes: an assignment to a column goes to `dirty`, commit()   *)
(* writes the dirty columns to the row and empties the set.                *)
(***************************************************************************)
EXTENDS Integers, Sequences, FiniteSets, TLC

\* ------------------------------------------------------------------ bounds
\* Number of run slots: the triggers accepted in one behaviour.
MaxRuns == 2

Runs == 1 .. MaxRuns

\* Number of call slots: the calls of the singleton getters in one behaviour.
MaxCalls == 3

Calls == 1 .. MaxCalls

\* Longest text (in characters) and longest vector given to the embedding
\* functions.
MaxText == 2
MaxDim == 2

\* The texts given to the chunking: at most MaxWords words of at most
\* MaxWordLen characters, and chunk limits up to MaxLimit characters.
MaxWords == 3
MaxWordLen == 2
MaxLimit == 5

\* Number of create-job-description requests in one behaviour.
MaxJobs == 2

JobSlots == 1 .. MaxJobs

\* ------------------------------------------------------------ value domains
\* NULL of a nullable column / Python None.
None == -1

\* model_fit_score values a generative-model response may carry (hundredths);
\* nothing in the code restricts them to 0..100.
ModelFitScores == {6000, 15000}

\* 'score' values (out of 60) an analyze_cv response may carry (hundredths).
CvScores == {3600, 9000}

\* Semantic match percentages compute_match_score can return (hundredths).
MatchScores == {8000}

\* The seven keys of the analyzer's result record.
RequiredKeys ==
    {"model_fit_score", "strengths", "gaps", "recommended_questions",
     "matched_skills", "missing_skills", "summary"}

\* Values of Candidate.processing_status written by the code.
InProgress == {"analyzing", "processing"}
Terminal == {"completed", "failed", "error"}

\* Columns of the candidate row that the runs write.
Columns ==
    {"processing_status", "jd_id", "jd_match_score", "matched_skills",
     "cv_analysis", "cv_score", "final_score", "overall_score"}

\* The analysis columns (everything a run computes).
AnalysisColumns == Columns \ {"processing_status", "jd_id"}

\* ------------------------------------------------------------ pure helpers
\* Python round(): nearest integer to n/d (n >= 0, d > 0), ties to even.
RoundHalfEven(n, d) ==
    LET q == n \div d
        r == n % d
    IN  IF 2 * r < d THEN q
        ELSE IF 2 * r > d THEN q + 1
        ELSE IF q % 2 = 0 THEN q ELSE q + 1

\* candidates.py:80   cv_score = (model_fit / 100) * 60
CvScoreFromFit(model_fit) == (model_fit * 60) \div 100

\* candidates.py:93-94  round(0.6 * jd_match_score + 0.4 * cv_score, 2)
BgFinalWithMatch(jd_match_score, cv_score) ==
    RoundHalfEven(6 * jd_match_score + 4 * cv_score, 10)

\* candidates.py:97   round((cv_score / 60) * 100, 2)
BgFinalNoMatch(cv_score) == RoundHalfEven(cv_score * 100, 60)

\* candidates.py:285-287
\*   structural_score_normalized = (cv_score / 60) * 100
\*   final = round(structural_score_normalized * 0.6 + jd_match_score * 0.4, 2)
SyncFinal(cv_score, jd_match_score) ==
    RoundHalfEven(6 * (cv_score * 100) + 4 * (jd_match_score * 60), 600)

\* ai_analyzer.py:235-253 generate_overall_assessment without a cover letter
OverallAssessment(cv_score) == RoundHalfEven(cv_score * 100, 60)

\* ------------------------------------------------- the structural analyzer
\* A 'model_fit_score' / 'score' whose JSON type is not a number (a string,
\* null, a list): arithmetic on it raises TypeError.
NotANumber == -2

\* What generate_content / response.text can do (ai_service.py:87-92):
\*   raise        the call raises
\*   empty        response.text is empty (ValueError, line 90)
\*   unparseable  json.loads raises, or the JSON value is not an object
\*   json         a JSON object with the keys `has`
Response(kind, has, score) == [kind |-> kind, has |-> has, score |-> score]

Responses ==
    {Response(k, {}, None) : k \in {"raise", "empty", "unparseable"}}
    \cup {Response("json", RequiredKeys, m) : m \in ModelFitScores \cup {NotANumber}}
    \cup {Response("json", RequiredKeys \ {"model_fit_score"}, None)}

\* ai_service.py:110-120  the record returned from the except branch
FallbackRecord ==
    [model_fit_score |-> 5000,
     keys |-> RequiredKeys,
     strengths |-> "Unable to fully analyze due to error",
     summary |-> "Error occurred during analysis",
     raised |-> FALSE]

\* analyze_resume_with_gemini without its except branch: the exception of
\* the call or of the parse leaves the method.
analyze_resume_with_gemini_reraise(resp) ==
    IF resp.kind = "json"
    THEN [model_fit_score |->
              IF "model_fit_score" \in resp.has THEN resp.score ELSE 5000,
          keys |-> resp.has \cup (RequiredKeys \ {"summary"}),
          strengths |-> IF "strengths" \in resp.has THEN "text" ELSE "",
          summary |-> IF "summary" \in resp.has THEN "text" ELSE "",
          raised |-> FALSE]
    ELSE [model_fit_score |-> None, keys |-> {}, strengths |-> "", summary |-> "",
          raised |-> TRUE]

\* ai_service.py:41-120  AIService.analyze_resume_with_gemini, as a function
\* of what the generative model did.  `raised` is TRUE when the exception
\* leaves the method instead of being turned into the fallback record.
analyze_resume_with_gemini(resp) ==
    IF resp.kind = "json"
    THEN [model_fit_score |->
              IF "model_fit_score" \in resp.has THEN resp.score ELSE 5000,
          keys |-> resp.has \cup (RequiredKeys \ {"summary"}),
          strengths |-> IF "strengths" \in resp.has THEN "text" ELSE "",
          summary |-> IF "summary" \in resp.has THEN "text" ELSE "",
          raised |-> FALSE]
    ELSE FallbackRecord

IsFallback(ai) == ai.summary = "Error occurred during analysis"

\* What the model can answer to analyze_cv: as Responses, and "list", a
\* response that parses to a JSON value that is no object.
CvResponses ==
    {Response(k, {}, None) : k \in {"raise", "empty", "unparseable", "list"}}
    \cup {Response("json", {"score", "summary"}, m) : m \in CvScores \cup {NotANumber}}
    \cup {Response("json", {"summary"}, None)}

\* ai_analyzer.py:102-175  AIAnalyzer.analyze_cv: json.loads of the response,
\* whatever it parses to; any exception gives the fixed record with score 30.
\* `object` tells whether the result is a dict; `score` is result.get('score', 0).
analyze_cv(resp) ==
    IF resp.kind = "json"
    THEN [object |-> TRUE,
          score |-> IF "score" \in resp.has THEN resp.score ELSE 0,
          summary |-> "text"]
    ELSE IF resp.kind = "list"
    THEN [object |-> FALSE, score |-> None, summary |-> ""]
    ELSE [object |-> TRUE, score |-> 3000, summary |-> "Error occurred during analysis"]

\* ------------------------------------------------------------------- state
VARIABLES
    row,          \* "absent" | "present" | "deleted": the candidate's row
    cand,         \* the persisted (committed) columns of the candidate row
    writer,       \* history: for each column, the run whose commit wrote it
    run,          \* run slot -> the state of that run (its session included)
    globals,      \* service -> the module global holding its singleton
    call,         \* call slot -> a call of a singleton getter
    inp,          \* the inputs of the library functions under study
    out,          \* function -> its result on inp
    jobs          \* request slot -> a create-job-description request and
                  \* the job description row it left

vars == <<row, cand, writer, run, globals, call, inp, out, jobs>>

\* The state of the service modules and of the library functions, which the
\* candidate pipeline below holds fixed.
library == <<globals, call, inp, out, jobs>>

\* The state of the candidate pipeline.
pipeline == <<row, cand, writer, run>>

\* A nullable JSON column holding no analysis.
NoAnalysis == [kind |-> "unset", score |-> None, summary |-> ""]

\* models/candidate.py:42-69  a row right after construction
NullRow ==
    [processing_status |-> "pending",
     jd_id |-> "none",
     jd_match_score |-> None,
     matched_skills |-> "unset",
     cv_analysis |-> NoAnalysis,
     cv_score |-> None,
     final_score |-> None,
     overall_score |-> None]

\* The session's set of modified attributes.
NoDirty == [c \in {} |-> None]

SetAttr(d, c, v) == [k \in DOMAIN d \cup {c} |-> IF k = c THEN v ELSE d[k]]

\* Session.commit(): UPDATE of the modified columns.
Flush(r, d) == [c \in Columns |-> IF c \in DOMAIN d THEN d[c] ELSE r[c]]

Stamp(w, d, id) == [c \in Columns |-> IF c \in DOMAIN d THEN id ELSE w[c]]

\* A slot no trigger has used yet.  Of a run:
\*   pc        "idle" | "scheduled" | "body" | "commit" | "handler" | "done"
\*   kind      "bg" (process_candidate_analysis) | "sync" (analyze_candidate)
\*   job       what the run does with its job parameters (JobRef)
\*   dirty     the modified attributes of its session's candidate
\* and its history:
\*   retrigger the persisted status was completed or failed at acceptance
\*   began     its in-progress status has been committed
\*   slow      an embedding, generative-model or search call has begun
\*   fallback  the structural analyzer returned its fallback record
\*   stale     a terminal status was written (by another run) after this
\*             run's trigger was accepted and before this run ended
\*   cause     the step that raised, "none" if none did
\*   outcome   the status its last commit wrote; "lost" when the except
\*             branch's commit raised, "absent" when it found no candidate
IdleRun ==
    [pc |-> "idle", kind |-> "none", job |-> "none",
     dirty |-> NoDirty, retrigger |-> FALSE, began |-> FALSE, slow |-> FALSE,
     fallback |-> FALSE, stale |-> FALSE, cause |-> "none", outcome |-> "none"]

\* The singleton getters: get_embedding_service, get_ai_service,
\* get_social_search_service, and _get_model of the module-level embedding
\* functions.
Services == {"embedding", "ai", "social", "model"}

\* embedding_service.py:64  the handle stored when the model cannot be loaded
FALLBACK_MODE == 0

\* A module global right after import: None, and nothing constructed.  A
\* handle is None, FALLBACK_MODE, or k >= 1 for the k-th instance constructed.
NoSingletons == [s \in Services |-> [handle |-> None, built |-> 0]]

\* A call slot no caller has used.  Of a call:
\*   pc    "idle" | "check" | "construct" | "assign" | "return" | "done" | "raised"
\*   svc   the getter called
\*   inst  the instance this call constructed (its local value)
\*   got   the handle the call returned
IdleCall == [pc |-> "idle", svc |-> "none", inst |-> None, got |-> None]

\* No library function is under study.
NoInput == [case |-> "none"]
NoOutput == [f \in {} |-> None]

\* A slot no create request has used.  Of a request:
\*   pc         "idle" | "task" (_compute_jd_embedding is scheduled) | "done"
\*   via        "job-descriptions" (job_descriptions.py) | "jobs" (jobs_router.py)
\*   status     the HTTP status of the response, 0 before it
\*   cause      what made the request fail, "none" if nothing did
\* and of the row it created:
\*   record     "none" | "stored" | "deleted"
\*   embedding  JobDescription.embedding: None, or the vector's length
NoJob ==
    [pc |-> "idle", via |-> "none", status |-> 0, cause |-> "none",
     record |-> "none", embedding |-> None]

PipelineInit ==
    /\ row = "absent"
    /\ cand = NullRow
    /\ writer = [c \in Columns |-> 0]
    /\ run = [r \in Runs |-> IdleRun]

Init ==
    /\ PipelineInit
    /\ globals = NoSingletons
    /\ call = [c \in Calls |-> IdleCall]
    /\ inp = NoInput
    /\ out = NoOutput
    /\ jobs = [j \in JobSlots |-> NoJob]

\* History of a terminal status write by run q, which ends q: every other run
\* already accepted and not yet ended becomes stale.
Ended(rn, q, outcome) ==
    [x \in Runs |->
        IF x = q
        THEN [rn[x] EXCEPT !.pc = "done", !.outcome = outcome, !.dirty = NoDirty,
                           !.stale = FALSE]
        ELSE IF rn[x].pc \in {"scheduled", "body", "commit", "handler"}
             THEN [rn[x] EXCEPT !.stale = TRUE]
             ELSE rn[x]]

\* The slot the next accepted trigger uses.
HasFreeSlot == \E r \in Runs : run[r].pc = "idle"
FreeSlot == CHOOSE r \in Runs : run[r].pc = "idle" /\ \A q \in 1 .. (r - 1) : run[q].pc # "idle"

Active(r) == run[r].pc \in {"body", "commit", "handler"}

\* main.py:62 runs one uvicorn process: the async handlers (upload, analyze,
\* match, delete) run one at a time on the event loop, and analyze_candidate
\* never awaits, so no other handler starts while it runs.  Background tasks
\* run on worker threads and interleave freely.
LoopFree == \A r \in Runs : ~(run[r].kind = "sync" /\ Active(r))

\* A commit on the candidate row: it fails when the store fails, and always
\* when the row is gone (UPDATE matches no row).
CommitOutcomes == IF row = "present" THEN BOOLEAN ELSE {FALSE}

\* ---------------------------------------------------------------- triggers
\* The job_id a trigger may carry:
\*   "none"     no job_id
\*   "job"      a stored job description whose embedding is stored
\*              (jobs_router.py:25-35 stores it with the record)
\*   "draft"    a stored job description whose embedding is still NULL
\*              (job_descriptions.py:55-66: _compute_jd_embedding has not run)
\*   "missing"  an id no job description has
JobIds == {"none", "job", "draft", "missing"}

\* JobDescription.embedding of a stored job is set.
HasEmbedding(job_id) == job_id = "job"

\* What a run does with its job parameters: with the id of a stored job it
\* uses that job (its text replaces job_text, candidates.py:54); otherwise it
\* has the ad-hoc job_text, or nothing.
JobRef(job_id, job_text) ==
    IF job_id \in {"job", "draft"} THEN job_id ELSE IF job_text THEN "text" ELSE "none"

Schedule(kind, pc, job_id, job_text) ==
    [IdleRun EXCEPT !.pc = pc, !.kind = kind, !.job = JobRef(job_id, job_text),
                    !.retrigger = cand.processing_status \in {"completed", "failed"}]

\* candidates.py:115-188  POST /upload
\* A bad extension (400) or a parse / commit failure (500) creates nothing.
UploadRejected ==
    /\ row = "absent"
    /\ LoopFree
    /\ UNCHANGED vars

UploadAccepted(job_id, job_text) ==
    /\ row = "absent"
    /\ LoopFree
    /\ HasFreeSlot
    /\ row' = "present"
    /\ cand' = [NullRow EXCEPT !.processing_status = "pending_analysis"]
    /\ run' = [run EXCEPT ![FreeSlot] = Schedule("bg", "scheduled", job_id, job_text)]
    /\ UNCHANGED writer
    /\ UNCHANGED library

upload_candidate_documents ==
    \/ UploadRejected
    \/ \E job_id \in JobIds, job_text \in BOOLEAN : UploadAccepted(job_id, job_text)

\* candidates.py:371-402  POST /{candidate_id}/match
\* 404 when the candidate is not found, 400 when neither job_id nor job_text
\* is given; otherwise the background task is scheduled, whatever the status.
MatchRejected(job_id, job_text) ==
    /\ LoopFree
    /\ row # "present" \/ (job_id = "none" /\ ~job_text)
    /\ UNCHANGED vars

MatchAccepted(job_id, job_text) ==
    /\ LoopFree
    /\ row = "present"
    /\ ~(job_id = "none" /\ ~job_text)
    /\ HasFreeSlot
    /\ run' = [run EXCEPT ![FreeSlot] = Schedule("bg", "scheduled", job_id, job_text)]
    /\ UNCHANGED <<row, cand, writer>>
    /\ UNCHANGED library

match_candidate_to_job ==
    \E job_id \in JobIds, job_text \in BOOLEAN :
        MatchRejected(job_id, job_text) \/ MatchAccepted(job_id, job_text)

\* candidates.py:405-418  DELETE /{candidate_id}
delete_candidate ==
    /\ LoopFree
    /\ row = "present"
    /\ row' = "deleted"
    /\ UNCHANGED <<cand, writer, run>>
    /\ UNCHANGED library

\* --------------------------------------- the background run (worker thread)
\* BgStart with the commit of line 34 left out: the status is assigned and
\* reaches the store only with the run's next commit.
BgStartLateCommit(r) ==
    /\ run[r].pc = "scheduled"
    /\ row = "present"
    /\ run' = [run EXCEPT ![r].pc = "body",
                          ![r].dirty = SetAttr(run[r].dirty, "processing_status", "analyzing")]
    /\ UNCHANGED <<row, cand, writer>>
    /\ UNCHANGED library

\* BgStart without the test of line 29: the status is assigned and committed
\* whether the query found a candidate or not.
BgStartUnchecked(r) ==
    /\ run[r].pc = "scheduled"
    /\ \E ok \in CommitOutcomes :
        LET d == SetAttr(run[r].dirty, "processing_status", "analyzing")
        IN  IF ok
            THEN /\ cand' = Flush(cand, d)
                 /\ writer' = Stamp(writer, d, r)
                 /\ run' = [run EXCEPT ![r].pc = "body", ![r].began = TRUE,
                                       ![r].dirty = NoDirty]
                 /\ UNCHANGED row
            ELSE /\ run' = [run EXCEPT ![r].pc = "handler", ![r].cause = "commit",
                                       ![r].job = "none"]
                 /\ UNCHANGED <<row, cand, writer>>
    /\ UNCHANGED library

\* candidates.py:28-34  query the candidate, return if there is none, else
\* set processing_status = "analyzing" and commit.  A failed commit raises
\* into the except branch.
BgStart(r) ==
    /\ run[r].pc = "scheduled"
    /\ IF row # "present"
       THEN /\ run' = [run EXCEPT ![r].pc = "done", ![r].outcome = "absent",
                                  ![r].job = "none", ![r].stale = FALSE]
            /\ UNCHANGED <<row, cand, writer>>
       ELSE \E ok \in CommitOutcomes :
            LET d == SetAttr(run[r].dirty, "processing_status", "analyzing")
            IN  IF ok
                THEN /\ cand' = Flush(cand, d)
                     /\ writer' = Stamp(writer, d, r)
                     /\ run' = [run EXCEPT ![r].pc = "body", ![r].began = TRUE,
                                           ![r].dirty = NoDirty]
                     /\ UNCHANGED row
                ELSE /\ run' = [run EXCEPT ![r].pc = "handler", ![r].cause = "commit",
                                           ![r].job = "none"]
                     /\ UNCHANGED <<row, cand, writer>>
    /\ UNCHANGED library

\* candidates.py:36-100  the pipeline body.  It reads the store once (the
\* refresh of the expired candidate at line 42 and the job query at line 51)
\* and only assigns attributes, so it is one step.
\*   svc   "services": a get_*_service() constructor raises (lines 37-39)
\*         "embed":    embed_text raises (line 43)
\*         (the generative model is then not asked)
\*   s     the value compute_match_score returns (line 59)
\*   resp  what the generative model does (line 63)
\* The result is the run's next state.
BgPipeline(r, svc, s, resp) ==
    LET job_found == run[r].job \in {"job", "draft"}
        job_embedding == job_found /\ HasEmbedding(run[r].job)
        d1 == IF job_found THEN SetAttr(run[r].dirty, "jd_id", run[r].job)
              ELSE run[r].dirty
        d2 == IF job_embedding THEN SetAttr(d1, "jd_match_score", s) ELSE d1
        ai == analyze_resume_with_gemini(resp)
        d3 == SetAttr(SetAttr(d2, "matched_skills", "analyzer"), "cv_analysis",
                      [kind |-> "resume", score |-> ai.model_fit_score,
                       summary |-> ai.summary])
        cv_score == CvScoreFromFit(ai.model_fit_score)
        d4 == SetAttr(d3, "cv_score", cv_score)
        jd_match_score == IF "jd_match_score" \in DOMAIN d4
                          THEN d4.jd_match_score ELSE cand.jd_match_score
        final_score == IF jd_match_score # None
                       THEN BgFinalWithMatch(jd_match_score, cv_score)
                       ELSE BgFinalNoMatch(cv_score)
        d5 == SetAttr(SetAttr(d4, "final_score", final_score),
                      "overall_score", final_score)
        raise(cause, d, slow, fb) ==
            [run[r] EXCEPT !.pc = "handler", !.cause = cause, !.dirty = d,
                           !.slow = slow, !.fallback = fb, !.job = "none"]
    IN  IF svc = "services" THEN raise("services", run[r].dirty, FALSE, FALSE)
        ELSE IF row # "present" THEN raise("refresh", run[r].dirty, FALSE, FALSE)
        ELSE IF svc = "embed" THEN raise("embed", run[r].dirty, TRUE, FALSE)
        ELSE IF ai.raised THEN raise("analyzer", d2, TRUE, FALSE)
        ELSE IF ai.model_fit_score = NotANumber
             THEN raise("score", d3, TRUE, IsFallback(ai))
        ELSE [run[r] EXCEPT !.pc = "commit", !.dirty = d5, !.slow = TRUE,
                            !.fallback = IsFallback(ai), !.job = "none"]

BgBody(r) ==
    /\ run[r].kind = "bg"
    /\ run[r].pc = "body"
    /\ \E svc \in {"ok", "services", "embed"}, s \in MatchScores :
       \E resp \in IF svc = "ok" THEN Responses ELSE {Response("raise", {}, None)} :
           run' = [run EXCEPT ![r] = BgPipeline(r, svc, s, resp)]
    /\ UNCHANGED <<row, cand, writer>>
    /\ UNCHANGED library

\* candidates.py:102-104  processing_status = "completed"; db.commit()
BgFinish(r) ==
    /\ run[r].kind = "bg"
    /\ run[r].pc = "commit"
    /\ \E ok \in CommitOutcomes :
        LET d == SetAttr(run[r].dirty, "processing_status", "completed")
        IN  IF ok
            THEN /\ cand' = Flush(cand, d)
                 /\ writer' = Stamp(writer, d, r)
                 /\ run' = Ended(run, r, "completed")
            ELSE /\ run' = [run EXCEPT ![r].pc = "handler", ![r].cause = "commit",
                                       ![r].dirty = NoDirty]
                 /\ UNCHANGED <<cand, writer>>
    /\ UNCHANGED row
    /\ UNCHANGED library

\* The commit in an except branch.  After a failed commit the session needs a
\* rollback() before it can be used again, which the code never calls, so the
\* second commit raises too; otherwise it succeeds or fails as any commit.
HandlerCommitOutcomes(r) ==
    IF run[r].cause = "commit" THEN {FALSE} ELSE CommitOutcomes

\* candidates.py:106-112  except: processing_status = "error"; db.commit()
\* An exception of this commit leaves the task: nothing is written.
BgHandler(r) ==
    /\ run[r].kind = "bg"
    /\ run[r].pc = "handler"
    /\ \E ok \in HandlerCommitOutcomes(r) :
        LET d == SetAttr(run[r].dirty, "processing_status", "error")
        IN  IF ok
            THEN /\ cand' = Flush(cand, d)
                 /\ writer' = Stamp(writer, d, r)
                 /\ run' = Ended(run, r, "error")
            ELSE /\ run' = [run EXCEPT ![r].pc = "done", ![r].outcome = "lost",
                                       ![r].dirty = NoDirty, ![r].stale = FALSE]
                 /\ UNCHANGED <<cand, writer>>
    /\ UNCHANGED row
    /\ UNCHANGED library

\* ------------------------- the synchronous run (POST /{candidate_id}/analyze)
\* candidates.py:201-216  404 when the candidate or the job is not found, 400
\* when processing_status is "processing".
AnalyzeRejected(jd_id) ==
    /\ LoopFree
    /\ \/ row # "present"
       \/ cand.processing_status = "processing"
       \/ jd_id = "missing"
    /\ UNCHANGED vars

\* candidates.py:201-222  accepted: jd_id is assigned when given, the status
\* becomes "processing" and is committed; the run then continues inline.  When
\* this commit raises the request fails (500) and nothing is written.
AnalyzeAccepted(jd_id) ==
    /\ LoopFree
    /\ row = "present"
    /\ cand.processing_status # "processing"
    /\ jd_id # "missing"
    /\ HasFreeSlot
    /\ \E ok \in CommitOutcomes :
        LET d0 == IF jd_id # "none" THEN SetAttr(NoDirty, "jd_id", jd_id) ELSE NoDirty
            d == SetAttr(d0, "processing_status", "processing")
        IN  IF ok
            THEN /\ cand' = Flush(cand, d)
                 /\ writer' = Stamp(writer, d, FreeSlot)
                 /\ run' = [run EXCEPT ![FreeSlot] =
                                [Schedule("sync", "body", jd_id, FALSE) EXCEPT !.began = TRUE]]
            ELSE UNCHANGED <<cand, writer, run>>
    /\ UNCHANGED row
    /\ UNCHANGED library

\* candidates.py:224-315  the body of the synchronous run, one step as the
\* background one.  The candidate has no cover letter.
\*   svc   "services": AIAnalyzer() raises (line 226)
\*   resp  what the generative model answers to analyze_cv (line 230)
\*   s     the value compute_similarity_percentage returns (line 253)
SyncPipeline(r, svc, resp, s) ==
    LET cv == analyze_cv(resp)
        d1 == SetAttr(run[r].dirty, "cv_analysis",
                      [kind |-> "cv", score |-> cv.score, summary |-> cv.summary])
        d2 == SetAttr(d1, "cv_score", cv.score)
        d3 == SetAttr(d2, "overall_score", OverallAssessment(cv.score))
        d4 == SetAttr(SetAttr(d3, "jd_match_score", s), "matched_skills", "keyword")
        d5 == SetAttr(d4, "final_score", SyncFinal(cv.score, s))
        raise(cause, d, slow) ==
            [run[r] EXCEPT !.pc = "handler", !.cause = cause, !.dirty = d,
                           !.slow = slow, !.job = "none"]
    IN  IF svc = "services" THEN raise("services", run[r].dirty, FALSE)
        ELSE IF ~cv.object THEN raise("score", d1, TRUE)
        ELSE IF cv.score = NotANumber THEN raise("score", d2, TRUE)
        ELSE [run[r] EXCEPT !.pc = "commit", !.slow = TRUE, !.job = "none",
                            !.dirty = IF HasEmbedding(run[r].job) THEN d5 ELSE d3]

SyncBody(r) ==
    /\ run[r].kind = "sync"
    /\ run[r].pc = "body"
    /\ \E svc \in {"ok", "services"}, s \in MatchScores :
       \E resp \in IF svc = "ok" THEN CvResponses ELSE {Response("raise", {}, None)} :
           run' = [run EXCEPT ![r] = SyncPipeline(r, svc, resp, s)]
    /\ UNCHANGED <<row, cand, writer>>
    /\ UNCHANGED library

\* candidates.py:317-320  processing_status = "completed"; db.commit()
SyncFinish(r) ==
    /\ run[r].kind = "sync"
    /\ run[r].pc = "commit"
    /\ \E ok \in CommitOutcomes :
        LET d == SetAttr(run[r].dirty, "processing_status", "completed")
        IN  IF ok
            THEN /\ cand' = Flush(cand, d)
                 /\ writer' = Stamp(writer, d, r)
                 /\ run' = Ended(run, r, "completed")
            ELSE /\ run' = [run EXCEPT ![r].pc = "handler", ![r].cause = "commit",
                                       ![r].dirty = NoDirty]
                 /\ UNCHANGED <<cand, writer>>
    /\ UNCHANGED row
    /\ UNCHANGED library

\* candidates.py:329-332  except: processing_status = "failed"; db.commit()
SyncHandler(r) ==
    /\ run[r].kind = "sync"
    /\ run[r].pc = "handler"
    /\ \E ok \in HandlerCommitOutcomes(r) :
        LET d == SetAttr(run[r].dirty, "processing_status", "failed")
        IN  IF ok
            THEN /\ cand' = Flush(cand, d)
                 /\ writer' = Stamp(writer, d, r)
                 /\ run' = Ended(run, r, "failed")
            ELSE /\ run' = [run EXCEPT ![r].pc = "done", ![r].outcome = "lost",
                                       ![r].dirty = NoDirty, ![r].stale = FALSE]
                 /\ UNCHANGED <<cand, writer>>
    /\ UNCHANGED row
    /\ UNCHANGED library

analyze_candidate ==
    \/ \E jd_id \in JobIds : AnalyzeRejected(jd_id) \/ AnalyzeAccepted(jd_id)
    \/ \E r \in Runs : SyncBody(r) \/ SyncFinish(r) \/ SyncHandler(r)

process_candidate_analysis(r) ==
    \/ BgStart(r)
    \/ BgBody(r)
    \/ BgFinish(r)
    \/ BgHandler(r)

Next ==
    \/ upload_candidate_documents
    \/ match_candidate_to_job
    \/ analyze_candidate
    \/ \E r \in Runs : process_candidate_analysis(r)

Spec == Init /\ [][Next]_vars

\* The run scheduled by the upload of a candidate that can be deleted: upload
\* and delete are handled on the event loop while the scheduled task runs on
\* a worker thread.
DeletionNext ==
    \/ upload_candidate_documents
    \/ delete_candidate
    \/ \E r \in Runs : process_candidate_analysis(r)

BackgroundRuns == Init /\ [][DeletionNext]_vars

\* ------------------------------------------------- the singleton getters
\* embedding_service.py:201-206, ai_service.py:151-156,
\* social_search.py:291-296, and embedding_service.py:35-70 (_get_model).
\* Each is: read the global; if it is None construct and assign; return the
\* global.  No lock is taken, and a background task runs on a worker thread,
\* so the steps of two calls interleave.
HasIdleCall == \E c \in Calls : call[c].pc = "idle"
FreeCall == CHOOSE c \in Calls : call[c].pc = "idle" /\ \A q \in 1 .. (c - 1) : call[q].pc # "idle"

InCall(c) == call[c].pc \in {"check", "construct", "assign", "return"}

\* What the constructor can do.  EmbeddingService() loads the model and
\* AIService() needs GEMINI_API_KEY: either can raise.  SocialSearchService()
\* only reads the environment.  _get_model catches every failure of the load.
ConstructOutcomes(s) == IF s = "social" THEN {TRUE} ELSE BOOLEAN

CallBegin(s) ==
    /\ HasIdleCall
    /\ call' = [call EXCEPT ![FreeCall] = [IdleCall EXCEPT !.pc = "check", !.svc = s]]
    /\ UNCHANGED <<globals, inp, out, jobs>>
    /\ UNCHANGED pipeline

\* if <global> is None:
CallCheckAlways(c) ==
    /\ call[c].pc = "check"
    /\ call' = [call EXCEPT ![c].pc = "construct"]
    /\ UNCHANGED <<globals, inp, out, jobs>>
    /\ UNCHANGED pipeline

CallCheck(c) ==
    /\ call[c].pc = "check"
    /\ call' = [call EXCEPT ![c].pc =
                    IF globals[call[c].svc].handle = None THEN "construct" ELSE "return"]
    /\ UNCHANGED <<globals, inp, out, jobs>>
    /\ UNCHANGED pipeline

\* The constructor call on the right of the assignment.  A failure leaves
\* get_embedding_service / get_ai_service as an exception; in _get_model it
\* gives the handle FALLBACK_MODE (lines 52-68).
CallConstruct(c) ==
    /\ call[c].pc = "construct"
    /\ globals[call[c].svc].built < MaxCalls
    /\ \E ok \in ConstructOutcomes(call[c].svc) :
        LET s == call[c].svc
        IN  IF ok
            THEN /\ globals' = [globals EXCEPT ![s].built = @ + 1]
                 /\ call' = [call EXCEPT ![c].pc = "assign",
                                          ![c].inst = globals[s].built + 1]
            ELSE /\ call' = IF s = "model"
                            THEN [call EXCEPT ![c].pc = "assign", ![c].inst = FALLBACK_MODE]
                            ELSE [call EXCEPT ![c].pc = "raised"]
                 /\ UNCHANGED globals
    /\ UNCHANGED <<inp, out, jobs>>
    /\ UNCHANGED pipeline

\* <global> = <the instance>
CallAssign(c) ==
    /\ call[c].pc = "assign"
    /\ globals' = [globals EXCEPT ![call[c].svc].handle = call[c].inst]
    /\ call' = [call EXCEPT ![c].pc = "return"]
    /\ UNCHANGED <<inp, out, jobs>>
    /\ UNCHANGED pipeline

\* return <global>
CallReturn(c) ==
    /\ call[c].pc = "return"
    /\ call' = [call EXCEPT ![c].pc = "done", ![c].got = globals[call[c].svc].handle]
    /\ UNCHANGED <<globals, inp, out, jobs>>
    /\ UNCHANGED pipeline

get_service(c) ==
    \/ CallCheck(c)
    \/ CallConstruct(c)
    \/ CallAssign(c)
    \/ CallReturn(c)

\* Calls from worker threads: a call begins whatever the others are doing.
ConcurrentNext ==
    \/ \E s \in Services : CallBegin(s)
    \/ \E c \in Calls : get_service(c)

ConcurrentCalls == Init /\ [][ConcurrentNext]_vars

\* Calls one after the other: a call begins when no other is in progress.
SequentialBegin(s) ==
    /\ \A c \in Calls : ~InCall(c)
    /\ CallBegin(s)

SequentialNext ==
    \/ \E s \in Services : SequentialBegin(s)
    \/ \E c \in Calls : get_service(c)

SequentialCalls == Init /\ [][SequentialNext]_vars

\* ------------------------------------------------- the embedding functions
\* A text is a sequence of characters, a space or a letter.
Chars == {" ", "a"}
Texts == UNION {[1 .. n -> Chars] : n \in 0 .. MaxText}

\* str.strip()
RECURSIVE LStrip(_)
LStrip(text) ==
    IF text # <<>> /\ Head(text) = " " THEN LStrip(Tail(text)) ELSE text

RECURSIVE RStrip(_)
RStrip(text) ==
    IF text # <<>> /\ text[Len(text)] = " "
    THEN RStrip(SubSeq(text, 1, Len(text) - 1)) ELSE text

Strip(text) == RStrip(LStrip(text))

\* len(text.split()): the number of maximal runs of letters
WordCount(text) ==
    Cardinality({i \in 1 .. Len(text) :
                    text[i] # " " /\ (i = 1 \/ text[i - 1] = " ")})

\* The model identifiers a deployment may configure in EMBEDDING_MODEL
\* (embedding_service.py:11), and get_sentence_embedding_dimension() of each:
\* 384 for the default all-MiniLM-L6-v2, 768 for all-mpnet-base-v2.
EmbeddingModels == {"all-MiniLM-L6-v2", "all-mpnet-base-v2"}

Dimension(model_name) == IF model_name = "all-MiniLM-L6-v2" THEN 384 ELSE 768

\* An embedding, by what the claims need of it:
\*   raised   the call raised instead of returning
\*   dim      its length
\*   kind     "zero" | "encoded" | "averaged" (mean of the chunks'
\*            embeddings, renormalized) | "hashed" (_fallback_embedding)
\*   encoded  model.encode was invoked
Embedding(dim, kind, encoded) ==
    [raised |-> FALSE, dim |-> dim, kind |-> kind, encoded |-> encoded]

EmbedRaised == [raised |-> TRUE, dim |-> None, kind |-> "none", encoded |-> FALSE]

\* embedding_service.py:230-262  _fallback_embedding(text, dim=384): counts
\* of hashed words, normalized when a word was counted.
fallback_embedding(text) ==
    Embedding(384, IF WordCount(text) > 0 THEN "hashed" ELSE "zero", FALSE)

\* embedding_service.py:35-70  _get_model(): the SentenceTransformer of the
\* fixed name all-MiniLM-L6-v2, or FALLBACK_MODE when it cannot be loaded.
get_model(loadable) == IF loadable THEN "all-MiniLM-L6-v2" ELSE "FALLBACK_MODE"

\* embed_text with the zero vector of the empty text given another length
\* than the model's vectors.
embed_text_short_zero(text, max_length, loadable, encode_ok) ==
    IF text = <<>> \/ Strip(text) = <<>>
    THEN Embedding(0, "zero", FALSE)
    ELSE LET model == get_model(loadable)
         IN  IF model = "FALLBACK_MODE" THEN fallback_embedding(Strip(text))
             ELSE IF ~encode_ok THEN fallback_embedding(Strip(text))
             ELSE Embedding(Dimension(model),
                            IF Len(Strip(text)) <= max_length THEN "encoded" ELSE "averaged",
                            TRUE)

\* embedding_service.py:73-109, 207-227  the module-level embed_text(text,
\* max_length).  `loadable`: the model can be loaded; `encode_ok`: encode
\* returns (its exception is caught at line 224).
embed_text(text, max_length, loadable, encode_ok) ==
    IF text = <<>> \/ Strip(text) = <<>>
    THEN Embedding(384, "zero", FALSE)
    ELSE LET model == get_model(loadable)
         IN  IF model = "FALLBACK_MODE" THEN fallback_embedding(Strip(text))
             ELSE IF ~encode_ok THEN fallback_embedding(Strip(text))
             ELSE Embedding(Dimension(model),
                            IF Len(Strip(text)) <= max_length THEN "encoded" ELSE "averaged",
                            TRUE)

\* embedding_service.py:201-206, 10-13, 130-160  get_embedding_service()
\* followed by EmbeddingService.embed_text(text).  The constructor loads the
\* model named by EMBEDDING_MODEL and raises when it cannot; encode's
\* exception is not caught.  chunk_size counts words.
service_embed_text(text, chunk_size, model_name, loadable, encode_ok) ==
    IF ~loadable THEN EmbedRaised
    ELSE IF text = <<>> \/ Strip(text) = <<>>
    THEN Embedding(Dimension(model_name), "zero", FALSE)
    ELSE IF ~encode_ok THEN EmbedRaised
    ELSE Embedding(Dimension(model_name),
                   IF WordCount(text) <= chunk_size THEN "encoded" ELSE "averaged",
                   TRUE)

\* ------------------------------------------------ the similarity functions
\* A vector component is a fixed-point number of hundredths; a dot product,
\* a squared norm and a similarity are then in units of 1/10000.
Components == {-100, 0, 60, 100}
Vectors == UNION {[1 .. n -> Components] : n \in 0 .. MaxDim}

RECURSIVE Dot(_, _)
Dot(a, b) == IF a = <<>> THEN 0 ELSE Head(a) * Head(b) + Dot(Tail(a), Tail(b))

Abs(x) == IF x < 0 THEN -x ELSE x

\* The integer square root, by bisection.
RECURSIVE IsqrtBetween(_, _, _)
IsqrtBetween(n, lo, hi) ==
    IF lo >= hi THEN lo
    ELSE LET mid == (lo + hi + 1) \div 2
         IN  IF mid * mid <= n THEN IsqrtBetween(n, mid, hi)
             ELSE IsqrtBetween(n, lo, mid - 1)

Isqrt(n) == IsqrtBetween(n, 0, 46340)

\* np.linalg.norm(vec), in units of 1/10000
Norm(a) == Isqrt(Dot(a, a) * 10000)

\* np.clip(similarity, -1.0, 1.0)
Clip(x) == IF x < -10000 THEN -10000 ELSE IF x > 10000 THEN 10000 ELSE x

\* A float result, or the exception that replaced it.
Value(x) == [raised |-> FALSE, value |-> x]
Raised == [raised |-> TRUE, value |-> None]

\* embedding_service.py:265-298  the module-level cosine_similarity: 0.0 for
\* an empty vector or two lengths, otherwise the clipped dot product.
cosine_similarity(a, b) ==
    IF a = <<>> \/ b = <<>> THEN Value(0)
    ELSE IF Len(a) # Len(b) THEN Value(0)
    ELSE Value(Clip(Dot(a, b)))

\* embedding_service.py:162-183  EmbeddingService.cosine_similarity: np.dot
\* raises ValueError for vectors of two lengths; 0.0 for a zero norm;
\* otherwise dot / (norm1 * norm2), clipped.
service_cosine_similarity(a, b) ==
    IF Len(a) # Len(b) THEN Raised
    ELSE LET dot_product == Dot(a, b)
             norm1 == Norm(a)
             norm2 == Norm(b)
         IN  IF norm1 = 0 \/ norm2 = 0 THEN Value(0)
             ELSE LET q == RoundHalfEven(
                               RoundHalfEven(Abs(dot_product) * 10000, norm1) * 10000,
                               norm2)
                  IN  Value(Clip(IF dot_product < 0 THEN -q ELSE q))

\* ((similarity + 1) / 2) * 100, rounded to 2 decimals (hundredths), with the
\* shift by one left out.
ToPercentageNoShift(sim) == RoundHalfEven(Abs(sim), 2)

\* embedding_service.py:319-321 and 193-194
\*   round(((similarity + 1) / 2) * 100, 2), in hundredths
ToPercentage(sim) == RoundHalfEven(sim + 10000, 2)

\* embedding_service.py:301-321  compute_similarity_percentage
compute_similarity_percentage(a, b) ==
    Value(ToPercentage(cosine_similarity(a, b).value))

\* embedding_service.py:185-194  EmbeddingService.compute_match_score
compute_match_score(a, b) ==
    LET similarity == service_cosine_similarity(a, b)
    IN  IF similarity.raised THEN Raised ELSE Value(ToPercentage(similarity.value))

\* ------------------------------------- the library functions, applied
\* The results with that of function f added.
Put(results, f, result) ==
    [g \in DOMAIN results \cup {f} |-> IF g = f THEN result ELSE results[g]]

\* Everything but inp and out at its initial value.
LibraryIdle ==
    /\ PipelineInit
    /\ globals = NoSingletons
    /\ call = [c \in Calls |-> IdleCall]
    /\ jobs = [j \in JobSlots |-> NoJob]

\* One deployment: its configuration (EMBEDDING_MODEL, whether the model can
\* be loaded, whether encode returns, the chunk limit, here in the scale of
\* the model's texts), the text of a job description and of a resume.
Deployments ==
    [case : {"deployment"}, job_text : Texts, resume_text : Texts,
     model_name : EmbeddingModels, loadable : BOOLEAN, encode_ok : BOOLEAN,
     max_length : 1 .. MaxText]

\* job_descriptions.py:91  _compute_jd_embedding: embed_text(jd_text)
EmbedJdText ==
    /\ inp.case = "deployment"
    /\ "jd_module" \notin DOMAIN out
    /\ out' = Put(out, "jd_module",
                  embed_text(inp.job_text, inp.max_length, inp.loadable, inp.encode_ok))
    /\ UNCHANGED <<globals, call, inp, jobs>>
    /\ UNCHANGED pipeline

\* candidates.py:250  analyze_candidate: embed_text(candidate.cv_text)
EmbedCvText ==
    /\ inp.case = "deployment"
    /\ "cv_module" \notin DOMAIN out
    /\ out' = Put(out, "cv_module",
                  embed_text(inp.resume_text, inp.max_length, inp.loadable, inp.encode_ok))
    /\ UNCHANGED <<globals, call, inp, jobs>>
    /\ UNCHANGED pipeline

\* jobs_router.py:22-25  get_embedding_service().embed_text(description_text)
EmbedJobDescription ==
    /\ inp.case = "deployment"
    /\ "jd_service" \notin DOMAIN out
    /\ out' = Put(out, "jd_service",
                  service_embed_text(inp.job_text, inp.max_length, inp.model_name,
                                     inp.loadable, inp.encode_ok))
    /\ UNCHANGED <<globals, call, inp, jobs>>
    /\ UNCHANGED pipeline

\* candidates.py:37-43  get_embedding_service().embed_text(resume_text)
EmbedResume ==
    /\ inp.case = "deployment"
    /\ "resume_service" \notin DOMAIN out
    /\ out' = Put(out, "resume_service",
                  service_embed_text(inp.resume_text, inp.max_length, inp.model_name,
                                     inp.loadable, inp.encode_ok))
    /\ UNCHANGED <<globals, call, inp, jobs>>
    /\ UNCHANGED pipeline

EmbeddingNext ==
    \/ EmbedJdText
    \/ EmbedCvText
    \/ EmbedJobDescription
    \/ EmbedResume

EmbeddingInit ==
    /\ LibraryIdle
    /\ inp \in Deployments
    /\ out = NoOutput

EmbeddingCalls == EmbeddingInit /\ [][EmbeddingNext]_vars

\* The text a recorded embedding was computed from, and the path it took.
TextOf(f) == IF f \in {"jd_module", "jd_service"} THEN inp.job_text ELSE inp.resume_text
PathOf(f) == IF f \in {"jd_module", "cv_module"} THEN "module" ELSE "service"

\* Two vectors to compare.
VectorPairs == [case : {"vectors"}, a : Vectors, b : Vectors]

ApplyCosineSimilarity ==
    /\ inp.case = "vectors"
    /\ "cosine" \notin DOMAIN out
    /\ out' = Put(out, "cosine",
                  cosine_similarity(inp.a, inp.b))
    /\ UNCHANGED <<globals, call, inp, jobs>>
    /\ UNCHANGED pipeline

ApplyServiceCosineSimilarity ==
    /\ inp.case = "vectors"
    /\ "service_cosine" \notin DOMAIN out
    /\ out' = Put(out, "service_cosine",
                  service_cosine_similarity(inp.a, inp.b))
    /\ UNCHANGED <<globals, call, inp, jobs>>
    /\ UNCHANGED pipeline

ApplySimilarityPercentage ==
    /\ inp.case = "vectors"
    /\ "percentage" \notin DOMAIN out
    /\ out' = Put(out, "percentage",
                  compute_similarity_percentage(inp.a, inp.b))
    /\ UNCHANGED <<globals, call, inp, jobs>>
    /\ UNCHANGED pipeline

ApplyMatchScore ==
    /\ inp.case = "vectors"
    /\ "match_score" \notin DOMAIN out
    /\ out' = Put(out, "match_score",
                  compute_match_score(inp.a, inp.b))
    /\ UNCHANGED <<globals, call, inp, jobs>>
    /\ UNCHANGED pipeline

SimilarityNext ==
    \/ ApplyCosineSimilarity
    \/ ApplyServiceCosineSimilarity
    \/ ApplySimilarityPercentage
    \/ ApplyMatchScore

SimilarityInit ==
    /\ LibraryIdle
    /\ inp \in VectorPairs
    /\ out = NoOutput

SimilarityCalls == SimilarityInit /\ [][SimilarityNext]_vars

\* Every response of the generative model: no usable answer, or a JSON
\* object with any subset of the seven keys.
AllResponses ==
    {Response(k, {}, None) : k \in {"raise", "empty", "unparseable"}}
    \cup {Response("json", has, m) :
             has \in {h \in SUBSET RequiredKeys : "model_fit_score" \in h},
             m \in ModelFitScores \cup {NotANumber}}
    \cup {Response("json", has, None) :
             has \in SUBSET (RequiredKeys \ {"model_fit_score"})}

ModelResponses == [case : {"response"}, resp : AllResponses]

ApplyAnalyzeResume ==
    /\ inp.case = "response"
    /\ "analysis" \notin DOMAIN out
    /\ out' = Put(out, "analysis",
                  analyze_resume_with_gemini(inp.resp))
    /\ UNCHANGED <<globals, call, inp, jobs>>
    /\ UNCHANGED pipeline

AnalyzerNext == ApplyAnalyzeResume

AnalyzerInit ==
    /\ LibraryIdle
    /\ inp \in ModelResponses
    /\ out = NoOutput

AnalyzerCalls == AnalyzerInit /\ [][AnalyzerNext]_vars

\* ------------------------------------------------------------ the chunking
\* text.split() of a stripped text: its words, each held as its length in
\* characters; a chunk is held as the positions of its words, in the order
\* they were appended.
WordLists == UNION {[1 .. n -> 1 .. MaxWordLen] : n \in 0 .. MaxWords}

\* len(' '.join(the words at positions chunk))
JoinedLength(words, chunk) ==
    LET RECURSIVE Sum(_)
        Sum(k) == IF k = 0 THEN 0 ELSE words[chunk[k]] + Sum(k - 1)
    IN  IF chunk = <<>> THEN 0 ELSE Sum(Len(chunk)) + (Len(chunk) - 1)

\* embedding_service.py:111, 116-126, 207  the loop over the words:
\*   word_length = len(word) + 1
\*   if current_length + word_length > max_length and current_chunk:
\*       close the chunk, start a new one with this word
\*   else: append the word, current_length += word_length
\* and after the loop the last chunk is appended when it has a word.
RECURSIVE ChunkLoop(_, _, _, _, _, _)
ChunkLoop(words, i, max_length, chunks, current_chunk, current_length) ==
    IF i > Len(words)
    THEN IF current_chunk # <<>> THEN Append(chunks, current_chunk) ELSE chunks
    ELSE LET word_length == words[i] + 1
         IN  IF current_length + word_length > max_length /\ current_chunk # <<>>
             THEN ChunkLoop(words, i + 1, max_length,
                            Append(chunks, current_chunk), <<i>>, word_length)
             ELSE ChunkLoop(words, i + 1, max_length, chunks,
                            Append(current_chunk, i), current_length + word_length)

\* embedding_service.py:105-126, 207  the chunks embed_text makes of a text
\* longer than max_length
chunk_text(words, max_length) == ChunkLoop(words, 1, max_length, <<>>, <<>>, 0)

\* A text of words separated by single spaces, and a chunk limit.
WordTexts == [case : {"words"}, words : WordLists, max_length : 1 .. MaxLimit]

\* The positions 1 .. n, in order.
Positions(n) == [k \in 1 .. n |-> k]

\* embedding_service.py:86-126  embed_text reaches the chunking when the text
\* is not blank and is longer than max_length (line 101).
ApplyChunkText ==
    /\ inp.case = "words"
    /\ "chunks" \notin DOMAIN out
    /\ inp.words # <<>>
    /\ JoinedLength(inp.words, Positions(Len(inp.words))) > inp.max_length
    /\ out' = Put(out, "chunks",
                  chunk_text(inp.words, inp.max_length))
    /\ UNCHANGED <<globals, call, inp, jobs>>
    /\ UNCHANGED pipeline

ChunkNext == ApplyChunkText

ChunkInit ==
    /\ LibraryIdle
    /\ inp \in WordTexts
    /\ out = NoOutput

ChunkCalls == ChunkInit /\ [][ChunkNext]_vars

\* ------------------------------------------------------- the score fusion
\* A structural score cv_score (out of 60) and a semantic match percentage,
\* in hundredths.
ScorePairs ==
    [case : {"scores"},
     cv_score : {0, 1500, 3000, 4800, 6000},
     jd_match_score : {0, 2500, 5000, 7200, 8000, 10000}]

\* candidates.py:91-94  process_candidate_analysis: final_score with a match
ApplyBgFinal ==
    /\ inp.case = "scores"
    /\ "final_bg" \notin DOMAIN out
    /\ out' = Put(out, "final_bg",
                  Value(BgFinalWithMatch(inp.jd_match_score, inp.cv_score)))
    /\ UNCHANGED <<globals, call, inp, jobs>>
    /\ UNCHANGED pipeline

\* candidates.py:283-287  analyze_candidate: final_score with a match
ApplySyncFinal ==
    /\ inp.case = "scores"
    /\ "final_sync" \notin DOMAIN out
    /\ out' = Put(out, "final_sync",
                  Value(SyncFinal(inp.cv_score, inp.jd_match_score)))
    /\ UNCHANGED <<globals, call, inp, jobs>>
    /\ UNCHANGED pipeline

FusionNext ==
    \/ ApplyBgFinal
    \/ ApplySyncFinal

FusionInit ==
    /\ LibraryIdle
    /\ inp \in ScorePairs
    /\ out = NoOutput

FusionCalls == FusionInit /\ [][FusionNext]_vars

\* ------------------------------------------------- the job descriptions
\* The slot the next create request uses.
HasFreeJob == \E j \in JobSlots : jobs[j].pc = "idle"
FreeJob == CHOOSE j \in JobSlots : jobs[j].pc = "idle" /\ \A q \in 1 .. (j - 1) : jobs[q].pc # "idle"

\* A request that ended without a row.
Refused(via, status, cause) ==
    [NoJob EXCEPT !.pc = "done", !.via = via, !.status = status, !.cause = cause]

\* The extension of description_file: none given, an allowed one, another.
Files == {"none", "pdf", "exe"}

\* description_text: not given, the empty string, a text.
DescriptionTexts == {"none", "empty", "text"}

\* job_descriptions.py:18-79  POST /api/job-descriptions/
\* 400 when neither a file nor a non-empty text is given (lines 30-34).  The
\* extension check (lines 39-46) is inside the try block, and HTTPException
\* is an Exception: its 400 is caught at line 77 and answered as 500, as are
\* the failures of the parser and of the store.  Otherwise the row is
\* committed without embedding and _compute_jd_embedding is scheduled.
create_job_description(description_file, description_text, parse_ok, commit_ok, refresh_ok) ==
    /\ HasFreeJob
    /\ jobs' = [jobs EXCEPT ![FreeJob] =
           IF description_file = "none" /\ description_text \in {"none", "empty"}
           THEN Refused("job-descriptions", 400, "neither")
           ELSE IF description_file = "exe"
           THEN Refused("job-descriptions", 500, "extension")
           ELSE IF description_file = "pdf" /\ ~parse_ok
           THEN Refused("job-descriptions", 500, "parse")
           ELSE IF ~commit_ok
           THEN Refused("job-descriptions", 500, "commit")
           ELSE IF ~refresh_ok
           THEN [NoJob EXCEPT !.pc = "done", !.via = "job-descriptions", !.status = 500,
                              !.cause = "refresh", !.record = "stored"]
           ELSE [NoJob EXCEPT !.pc = "task", !.via = "job-descriptions", !.status = 200,
                              !.record = "stored"]]
    /\ UNCHANGED <<globals, call, inp, out>>
    /\ UNCHANGED pipeline

\* job_descriptions.py:80-102  _compute_jd_embedding.  Its first statement,
\* `from ..models import SessionLocal` (line 85), raises ImportError: the
\* package app.models binds Base, engine, get_db, init_db, Candidate and
\* JobDescription only (models/__init__.py:1-5).  The except branch of line
\* 101 logs it, and the embedding column stays NULL.
compute_jd_embedding(j) ==
    /\ jobs[j].pc = "task"
    /\ jobs' = [jobs EXCEPT ![j].pc = "done", ![j].cause = "import"]
    /\ UNCHANGED <<globals, call, inp, out>>
    /\ UNCHANGED pipeline

\* The texts a create request of POST /api/jobs may carry: pydantic accepts
\* every string for description_text, the empty one included.
JobTexts == {<<>>, <<"a">>}

\* jobs_router.py:12-42 with the row committed before its embedding is
\* computed, as job_descriptions.py does.
jobs_router_create_store_first(description_text, loadable, encode_ok, commit_ok, refresh_ok) ==
    /\ HasFreeJob
    /\ LET embedding == service_embed_text(description_text, MaxText, "all-MiniLM-L6-v2",
                                           loadable, encode_ok)
       IN  jobs' = [jobs EXCEPT ![FreeJob] =
               IF ~commit_ok
               THEN Refused("jobs", 500, "commit")
               ELSE IF embedding.raised
               THEN [NoJob EXCEPT !.pc = "done", !.via = "jobs", !.status = 500,
                                  !.cause = "embed", !.record = "stored"]
               ELSE [NoJob EXCEPT !.pc = "done", !.via = "jobs",
                                  !.status = IF refresh_ok THEN 200 ELSE 500,
                                  !.cause = IF refresh_ok THEN "none" ELSE "refresh",
                                  !.record = "stored", !.embedding = embedding.dim]]
    /\ UNCHANGED <<globals, call, inp, out>>
    /\ UNCHANGED pipeline

\* jobs_router.py:12-42  POST /api/jobs/
\* get_embedding_service().embed_text(description_text), then the row is
\* added with its embedding and committed.  Every exception is answered by
\* rollback() and 500: of the embedding and of the commit before a row
\* exists, of refresh (line 35) after it was committed.
jobs_router_create_job_description(description_text, loadable, encode_ok, commit_ok, refresh_ok) ==
    /\ HasFreeJob
    /\ LET embedding == service_embed_text(description_text, MaxText, "all-MiniLM-L6-v2",
                                           loadable, encode_ok)
       IN  jobs' = [jobs EXCEPT ![FreeJob] =
               IF embedding.raised
               THEN Refused("jobs", 500, "embed")
               ELSE IF ~commit_ok
               THEN Refused("jobs", 500, "commit")
               ELSE [NoJob EXCEPT !.pc = "done", !.via = "jobs",
                                  !.status = IF refresh_ok THEN 200 ELSE 500,
                                  !.cause = IF refresh_ok THEN "none" ELSE "refresh",
                                  !.record = "stored", !.embedding = embedding.dim]]
    /\ UNCHANGED <<globals, call, inp, out>>
    /\ UNCHANGED pipeline

\* job_descriptions.py:140-154, jobs_router.py:78-94  DELETE of a stored row
delete_job_description(j) ==
    /\ jobs[j].record = "stored"
    /\ jobs' = [jobs EXCEPT ![j].record = "deleted"]
    /\ UNCHANGED <<globals, call, inp, out>>
    /\ UNCHANGED pipeline

JobNext ==
    \/ \E description_file \in Files, description_text \in DescriptionTexts,
          parse_ok, commit_ok, refresh_ok \in BOOLEAN :
           create_job_description(description_file, description_text,
                                  parse_ok, commit_ok, refresh_ok)
    \/ \E j \in JobSlots : compute_jd_embedding(j)
    \/ \E description_text \in JobTexts, loadable, encode_ok, commit_ok, refresh_ok \in BOOLEAN :
           jobs_router_create_job_description(description_text, loadable, encode_ok,
                                              commit_ok, refresh_ok)
    \/ \E j \in JobSlots : delete_job_description(j)

JobCalls == Init /\ [][JobNext]_vars

\* ================================================================= claims
\* The fusion the specification states: 0.6 * semantic + 0.4 * structural,
\* both on the 0-100 scale, rounded to 2 decimals.
Fuse(s, q) == RoundHalfEven(6 * s + 4 * q, 10)

\* The structural score on the 0-100 scale, from cv_score (out of 60).
StructuralScore100(cv_score) == RoundHalfEven(cv_score * 100, 60)

\* The run's in-progress status is written and its terminal one is not.
InFlight(r) == run[r].began /\ run[r].pc # "done"

\* C1: at most one run of the candidate is between its in-progress status
\* write and its terminal status write.
C1_AtMostOneActiveRun == Cardinality({r \in Runs : InFlight(r)}) <= 1

\* C2: while the persisted status is in progress ("analyzing" or
\* "processing") no trigger starts or schedules a run: no slot leaves "idle".
C2_TriggerRejectedWhileInProgress ==
    [][(row = "present" /\ cand.processing_status \in InProgress)
          => \A r \in Runs : run[r].pc = "idle" => run'[r].pc = "idle"]_vars

C4_FinalIsWeightedFusion ==
    \A r \in Runs :
        (/\ run[r].outcome = "completed"
         /\ writer.final_score = r
         /\ writer.jd_match_score = r
         /\ writer.cv_score = r)
        => cand.final_score =
               Fuse(cand.jd_match_score, StructuralScore100(cand.cv_score))

\* C5: a completed run that had no job id and computed no semantic match
\* score persists final_score = its structural score on the 0-100 scale.
C5_FinalIsStructuralWithoutMatch ==
    \A r \in Runs :
        (/\ run[r].outcome = "completed"
         /\ cand.processing_status = "completed"
         /\ writer.processing_status = r
         /\ writer.cv_score = r
         /\ writer.jd_id # r
         /\ writer.jd_match_score # r)
        => cand.final_score = StructuralScore100(cand.cv_score)

\* C6: the persisted final_score is unset or within [0, 100].
C6_FinalScoreInRange ==
    cand.final_score = None \/ (0 <= cand.final_score /\ cand.final_score <= 10000)

\* C7: when a run triggered on a Completed or Failed candidate completes, no
\* analysis column keeps a value left by an earlier run: each one was written
\* by this run or is unset.
C7_RerunReplacesEveryField ==
    \A r \in Runs :
        (/\ run[r].retrigger
         /\ run[r].outcome = "completed"
         /\ cand.processing_status = "completed"
         /\ writer.processing_status = r)
        => \A c \in AnalysisColumns : writer[c] = r \/ cand[c] = NullRow[c]

\* C8: when a step of a run raises after its in-progress status was written,
\* the run leaves its except branch with Error or Failed persisted, together
\* with every attribute it had assigned before.
C8_FailureIsPersistedWithPartialProgress ==
    [][\A r \in Runs :
          (run[r].began /\ run[r].pc = "handler" /\ run'[r].pc = "done")
          => /\ cand'.processing_status \in {"error", "failed"}
             /\ \A c \in DOMAIN run[r].dirty : cand'[c] = run[r].dirty[c]]_vars

\* C9: a run that wrote the in-progress status does not end without having
\* written a terminal status.
C9_RunEndsWithTerminalStatus ==
    \A r \in Runs :
        (run[r].began /\ run[r].pc = "done") => run[r].outcome \in Terminal

C11_TerminalStatusChangesOnlyByFreshTrigger ==
    [][(/\ row = "present"
        /\ cand.processing_status \in Terminal
        /\ cand'.processing_status # cand.processing_status)
       => ~run[writer'.processing_status].stale]_vars

\* C12: the persisted status is one of five values, one per state, and a
\* candidate created by upload is Pending until a run starts.
StatusValues == {"pending", "analyzing", "completed", "failed", "error"}

C12_StatusIsOneOfFiveValues ==
    row = "present" =>
        /\ cand.processing_status \in StatusValues
        /\ writer.processing_status = 0 => cand.processing_status = "pending"

\* The calls of getter s that have returned.
Returned(s) == {c \in Calls : call[c].svc = s /\ call[c].pc = "done"}

\* C13: whatever the interleaving of its first callers, the embedding model
\* handle / embedding service is initialized at most once, and every caller
\* receives the handle of that one initialization.
C13_InitializedOnceUnderConcurrency ==
    \A s \in {"embedding", "model"} :
        /\ globals[s].built <= 1
        /\ \A c1, c2 \in Returned(s) : call[c1].got = call[c2].got

\* C14: in a sequence of sequential calls, each of get_embedding_service,
\* get_ai_service and get_social_search_service constructs one instance at
\* most, and every call that returns returns that instance.
C14_SequentialCallsShareOneInstance ==
    \A s \in {"embedding", "ai", "social"} :
        /\ globals[s].built <= 1
        /\ \A c \in Returned(s) : call[c].got = 1 /\ globals[s].handle = 1

\* C14 witness: after a first call that raised, two calls of get_ai_service
\* have returned the one instance.
C14_Witness ==
    \E c0, c1, c2 \in Calls :
        /\ c0 < c1 /\ c1 < c2
        /\ call[c0].svc = "ai" /\ call[c0].pc = "raised"
        /\ {c1, c2} \subseteq Returned("ai")
        /\ call[c1].got = 1 /\ call[c2].got = 1
        /\ globals["ai"].built = 1

\* A text that is empty or only whitespace.
IsBlank(text) == \A i \in 1 .. Len(text) : text[i] = " "

\* C15: when the embedding model cannot be loaded, no path that computes an
\* embedding raises, and each returns the hashed fallback vector for a text
\* that has words.
C15_EmbeddingNeverRaisesWithoutModel ==
    (inp.case = "deployment" /\ ~inp.loadable) =>
        \A f \in DOMAIN out :
            /\ ~out[f].raised
            /\ ~IsBlank(TextOf(f)) => out[f].kind = "hashed"

C17_OneDimensionPerDeployment ==
    inp.case = "deployment" =>
        \A f, g \in DOMAIN out :
            (~out[f].raised /\ ~out[g].raised) => out[f].dim = out[g].dim

\* The pairs for which the similarity is 0.0 by definition.
Degenerate(a, b) ==
    a = <<>> \/ b = <<>> \/ Len(a) # Len(b) \/ Dot(a, a) = 0 \/ Dot(b, b) = 0

\* C18: both cosine similarity functions return 0.0, without raising, for an
\* empty vector, two lengths or a zero norm, and a value in [-1, 1] otherwise.
C18_CosineIsTotalAndBounded ==
    inp.case = "vectors" =>
        \A f \in DOMAIN out \cap {"cosine", "service_cosine"} :
            /\ ~out[f].raised
            /\ Degenerate(inp.a, inp.b) => out[f].value = 0
            /\ -10000 <= out[f].value /\ out[f].value <= 10000

\* C19: the percentage of similarity -1, 0, 1 is 0.0, 50.0, 100.0, and both
\* percentage functions yield, for every pair of vectors, the rounded
\* ((sim + 1) / 2) * 100 of that path's similarity, which is in [0, 100].
C19_PercentageMapping ==
    /\ ToPercentage(-10000) = 0
    /\ ToPercentage(0) = 5000
    /\ ToPercentage(10000) = 10000
    /\ inp.case = "vectors" =>
        \A f \in DOMAIN out \cap {"percentage", "match_score"} :
            /\ ~out[f].raised
            /\ 0 <= out[f].value /\ out[f].value <= 10000
            /\ LET sim == IF f = "percentage" THEN cosine_similarity(inp.a, inp.b)
                          ELSE service_cosine_similarity(inp.a, inp.b)
               IN  out[f].value = RoundHalfEven((sim.value + 10000) * 100, 200)

\* C20: for a JSON object with any subset of the seven keys, the analyzer's
\* record has all seven keys, a missing one with its default (score 50,
\* empty summary) and a present one unchanged.
C20_MissingFieldsAreDefaulted ==
    (inp.case = "response" /\ inp.resp.kind = "json" /\ "analysis" \in DOMAIN out) =>
        LET ai == out["analysis"]
        IN  /\ ~ai.raised
            /\ ai.keys = RequiredKeys
            /\ ai.model_fit_score =
                   IF "model_fit_score" \in inp.resp.has THEN inp.resp.score ELSE 5000
            /\ ai.summary = IF "summary" \in inp.resp.has THEN "text" ELSE ""

\* C21: a trigger that fails validation (no such candidate, no such job, or
\* a match request with neither job_id nor job_text) schedules no run and
\* changes nothing: no step of upload, match or analyze with such parameters
\* changes the candidate, the history of its writes or a run slot.
C21_InvalidTriggerChangesNothing ==
    [][\A job_id \in JobIds, job_text \in BOOLEAN :
          /\ ( /\ row # "present" \/ job_id = "missing" \/ (job_id = "none" /\ ~job_text)
               /\ MatchRejected(job_id, job_text) \/ MatchAccepted(job_id, job_text) )
                 => UNCHANGED pipeline
          /\ ( /\ row # "present" \/ job_id = "missing"
               /\ AnalyzeRejected(job_id) \/ AnalyzeAccepted(job_id) )
                 => UNCHANGED pipeline
          /\ ( /\ job_id = "missing"
               /\ UploadRejected \/ UploadAccepted(job_id, job_text) )
                 => UNCHANGED pipeline]_vars

\* The response to the trigger of run r has left the handler.  A task given
\* to BackgroundTasks.add_task (candidates.py:174, 391) starts only after the
\* response is sent; analyze_candidate returns at line 322 or raises at line
\* 332, after the commit that ends its run.
Responded(r) ==
    \/ run[r].kind = "bg" /\ run[r].pc \in {"body", "commit", "handler", "done"}
    \/ run[r].kind = "sync" /\ run[r].pc = "done"

\* C22: an accepted trigger has answered its caller before the run it
\* started makes an embedding, generative-model or search call, and before
\* that run's last commit.
C22_TriggerReturnsBeforeRunWorks ==
    \A r \in Runs :
        (run[r].slow \/ run[r].pc \in {"commit", "handler"}) => Responded(r)

\* C23: a run given a job reference (a stored job description, with or
\* without its embedding stored yet, or ad-hoc job text) that gets through
\* its pipeline body has set the candidate's semantic match score.
C23_JobReferenceGivesMatchScore ==
    [][\A r \in Runs :
          (/\ run[r].pc = "body"
           /\ run[r].job \in {"job", "draft", "text"}
           /\ run'[r].pc = "commit")
          => "jd_match_score" \in DOMAIN run'[r].dirty]_vars

\* C24: a create request to /api/job-descriptions that fails validation
\* (neither file nor text, or a file of another extension than pdf, docx,
\* txt) is answered 400 and leaves no row.
C24_InvalidCreateIs400 ==
    \A j \in JobSlots :
        (jobs[j].via = "job-descriptions" /\ jobs[j].cause \in {"neither", "extension"})
        => (jobs[j].status = 400 /\ jobs[j].record = "none")

\* C30: a row created by POST /api/jobs has its embedding set whenever it
\* is readable, and a request whose embedding or commit failed is answered
\* with an error and leaves no row.
C30_JobStoredOnlyWithEmbedding ==
    \A j \in JobSlots :
        jobs[j].via = "jobs" =>
            /\ jobs[j].record = "stored" => jobs[j].embedding # None
            /\ jobs[j].cause \in {"embed", "commit"} =>
                   (jobs[j].status = 500 /\ jobs[j].record = "none")

\* C30 witness: one request stored its row with the embedding and was
\* answered 200; another, whose embedding could not be computed, was
\* answered 500 and left no row.
C30_Witness ==
    \E j, k \in JobSlots :
        /\ jobs[j].via = "jobs" /\ jobs[j].status = 200
        /\ jobs[j].record = "stored" /\ jobs[j].embedding = 384
        /\ jobs[k].via = "jobs" /\ jobs[k].cause = "embed"
        /\ jobs[k].status = 500 /\ jobs[k].record = "none"

\* The chunks one after the other.
RECURSIVE Flatten(_)
Flatten(chunks) == IF chunks = <<>> THEN <<>> ELSE Head(chunks) \o Flatten(Tail(chunks))

\* C25: the chunks of a text longer than the limit are runs of whole
\* consecutive words that hold every word once and in order; no chunk is
\* longer than the limit; and a chunk is closed only when it would exceed
\* the limit with the next word added.
C25_ChunksAreGreedyWithinLimit ==
    (inp.case = "words" /\ "chunks" \in DOMAIN out) =>
        LET chunks == out["chunks"]
        IN  /\ \A k \in 1 .. Len(chunks) : chunks[k] # <<>>
            /\ Flatten(chunks) = Positions(Len(inp.words))
            /\ \A k \in 1 .. Len(chunks) :
                   JoinedLength(inp.words, chunks[k]) <= inp.max_length
            /\ \A k \in 1 .. (Len(chunks) - 1) :
                   JoinedLength(inp.words, Append(chunks[k], Head(chunks[k + 1])))
                       > inp.max_length

\* C26: when a run that overlapped another (a terminal status was written
\* while it was under way) ends and no run is left, the persisted status and
\* every analysis column that was ever written come from one and the same run.
C26_OverlappingRunsLoseNoUpdate ==
    [][\A r \in Runs :
          (/\ run[r].stale
           /\ run[r].pc # "done"
           /\ run'[r].pc = "done"
           /\ \A q \in Runs : run'[q].pc \in {"idle", "done"})
          => \A c \in AnalysisColumns :
                 writer'[c] \in {0, writer'.processing_status}]_vars

\* C27: while the persisted status is terminal (completed, failed or error)
\* no run of the candidate is executing its pipeline body, its final commit
\* or its except branch.
C27_TerminalStatusMeansNoRunWorking ==
    (row = "present" /\ cand.processing_status \in Terminal)
        => \A r \in Runs : ~Active(r)

\* C28: for one structural score and one semantic match score the
\* background task and the synchronous handler compute the same final_score.
C28_RunPathsScoreAlike ==
    (inp.case = "scores" /\ {"final_bg", "final_sync"} \subseteq DOMAIN out)
        => out["final_bg"] = out["final_sync"]

\* C29: the first step of a background run that finds no row of its
\* candidate ends the run: nothing is written to the store or assigned in
\* the session, and no embedding, model or search call was made.
C29_RunWithoutCandidateDoesNothing ==
    [][\A r \in Runs :
          (/\ run[r].kind = "bg"
           /\ run[r].pc = "scheduled"
           /\ row # "present"
           /\ run'[r] # run[r])
          => /\ run'[r].pc = "done"
             /\ run'[r].dirty = NoDirty
             /\ ~run'[r].began
             /\ ~run'[r].slow
             /\ UNCHANGED <<row, cand, writer>>]_vars

\* C29 witness: the candidate was deleted while a run was scheduled, and
\* that run has ended without a candidate; the row's columns are as the
\* upload left them.
C29_Witness ==
    /\ row = "deleted"
    /\ \E r \in Runs :
          /\ run[r].kind = "bg"
          /\ run[r].pc = "done"
          /\ run[r].outcome = "absent"
          /\ ~run[r].began
    /\ cand.processing_status = "pending_analysis"
    /\ \A c \in Columns : writer[c] = 0

====
